---- MODULE Spec2Model ----
\* Model of runner::run, runner::process_round and runner::load_endpoints
\* (src/src/runner.rs). The scheduler loop of run is one process whose
\* position is pc; every task::spawn'ed round task is a separate process whose
\* state is tstate[k] (k = the iteration number it was spawned with).
EXTENDS Integers, Naturals, Sequences, FiniteSets, TLC

\* ---- bounds ----
MaxRounds == 2          \* largest cfg.rounds length explored
MaxIter == 2            \* largest Some(n) for cfg.iterations explored
MaxI == 4               \* cap on the iteration counter i (guards Spawn)

\* ---- program values ----
Adapters == {"Hotshot", "Other"}     \* config::Adapter: Hotshot and any other variant
\* Option<iterations>: <<>> is None, <<n>> is Some(n)
IterationsOptions == {<<>>} \cup {<<n>> : n \in 0..MaxIter}

VARIABLES
    nRounds,      \* cfg.rounds.len()
    iterations,   \* cfg.iterations
    adapter,      \* cfg.adapter
    cancelled,    \* the ctx cancellation flag (quit.recv() is ready once set)
    cancelAtStart,\* cancellation was requested before run started
    pc,           \* scheduler position in run
    i,            \* global iteration counter i: u32
    r,            \* in-pass round counter r: usize
    it,           \* position of the `for round in rounds` iterator (rounds consumed)
    tstate,       \* round task k: "none" | "running" | "pushing" (Ok, waiting for
                  \* the write lock) | "locked" (holds it) | "pushed" (guard
                  \* dropped, async block not yet completed) | "ok" | "err"
    abandoned,    \* round task k's dispatch race was resolved toward quit
    lock,         \* holder of the results RwLock write guard (0 = free)
    snap,         \* the Vec as read by task k inside its write guard
    results,      \* Arc<RwLock<Vec<RoundResults>>>: seq of dispatch records
    dispatched,   \* seq of <<iteration, round_num, position of round in rounds>>
    pauses,       \* number of times the scheduler entered the pause select
    ret,          \* run's outcome: "none" | "ok" | "panic"
    quitSeen,     \* where the scheduler first saw quit.recv(): "none"|"dispatch"|"pause"
    iAtQuit       \* value of i when the scheduler first saw quit.recv()

vars == <<nRounds, iterations, adapter, cancelled, cancelAtStart, pc, i, r, it,
          tstate, abandoned, lock, snap, results, dispatched, pauses, ret,
          quitSeen, iAtQuit>>

Tasks == 1..MaxI

\* `if let Some(iterations) = cfg.iterations { if i >= iterations as u32 ...`
CeilingReached(n) == Len(iterations) = 1 /\ n >= iterations[1]

\* load_endpoints: the possible results; Hotshot returns whatever
\* hotshot::load_endpoints returns (Ok or its Err), any other adapter is
\* UnsupportedAdapter
LoadEndpoints(a) == IF a = "Hotshot" THEN {"Ok", "Err"} ELSE {"UnsupportedAdapter"}

\* process_round: the possible outcomes of one call; Hotshot's adapter call
\* may succeed or fail, every other adapter is UnsupportedAdapter
ProcessRoundOutcomes(a) == IF a = "Hotshot" THEN {"ok", "err"} ELSE {"err"}

\* first observation of quit.recv() by the scheduler
SeeQuit(where) ==
    /\ quitSeen' = IF quitSeen = "none" THEN where ELSE quitSeen
    /\ iAtQuit' = IF quitSeen = "none" THEN i ELSE iAtQuit

\* a round task still owns its Arc clone of results
HoldsArc(k) == tstate[k] \in {"running", "pushing", "locked", "pushed"}

Init ==
    /\ nRounds \in 0..MaxRounds
    /\ iterations \in IterationsOptions
    /\ adapter \in Adapters
    /\ cancelled \in BOOLEAN
    /\ cancelAtStart = cancelled
    /\ pc = "for"
    /\ i = 0
    /\ r = 0
    /\ it = 0
    /\ tstate = [k \in Tasks |-> "none"]
    /\ abandoned = [k \in Tasks |-> FALSE]
    /\ lock = 0
    /\ snap = [k \in Tasks |-> <<>>]
    /\ results = <<>>
    /\ dispatched = <<>>
    /\ pauses = 0
    /\ ret = "none"
    /\ quitSeen = "none"
    /\ iAtQuit = 0

\* ctx stop: sets the cancellation flag (idempotent)
RequestCancel ==
    /\ ~cancelled
    /\ cancelled' = TRUE
    /\ UNCHANGED <<nRounds, iterations, adapter, cancelAtStart, pc, i, r, it,
                   tstate, abandoned, lock, snap, results, dispatched, pauses,
                   ret, quitSeen, iAtQuit>>

\* `for round in rounds`: next round; i += 1; r += 1; the select! evaluates
\* task::spawn(...) eagerly, so the round task starts here
Spawn ==
    /\ pc = "for"
    /\ it < nRounds
    /\ i < MaxI
    /\ i' = i + 1
    /\ r' = r + 1
    /\ it' = it + 1
    /\ tstate' = [tstate EXCEPT ![i + 1] = "running"]
    /\ dispatched' = Append(dispatched, <<i + 1, r + 1, it + 1>>)
    /\ pc' = "dispatch"
    /\ UNCHANGED <<nRounds, iterations, adapter, cancelled, cancelAtStart,
                   abandoned, lock, snap, results, pauses, ret, quitSeen, iAtQuit>>

\* `for` exhausted: fall through to the outer ceiling check
ForDone ==
    /\ pc = "for"
    /\ it = nRounds
    /\ pc' = "outer"
    /\ UNCHANGED <<nRounds, iterations, adapter, cancelled, cancelAtStart, i, r, it,
                   tstate, abandoned, lock, snap, results, dispatched, pauses,
                   ret, quitSeen, iAtQuit>>

\* the spawned async block: process_round returns; Err is only logged
TaskFinish(k) ==
    /\ tstate[k] = "running"
    /\ \E o \in ProcessRoundOutcomes(adapter) :
         tstate' = [tstate EXCEPT ![k] = IF o = "ok" THEN "pushing" ELSE "err"]
    /\ UNCHANGED <<nRounds, iterations, adapter, cancelled, cancelAtStart, pc, i, r, it,
                   abandoned, lock, snap, results, dispatched, pauses, ret,
                   quitSeen, iAtQuit>>

\* TaskLock without mutual exclusion on the guard
TaskLockUnguarded(k) ==
    /\ tstate[k] = "pushing"
    /\ lock' = k
    /\ snap' = [snap EXCEPT ![k] = results]
    /\ tstate' = [tstate EXCEPT ![k] = "locked"]
    /\ UNCHANGED <<nRounds, iterations, adapter, cancelled, cancelAtStart, pc, i, r, it,
                   abandoned, results, dispatched, pauses, ret, quitSeen, iAtQuit>>

\* Ok arm: results.write().unwrap() blocks until the write guard is free,
\* then the task reads the Vec it is about to push to
TaskLock(k) ==
    /\ tstate[k] = "pushing"
    /\ lock = 0
    /\ lock' = k
    /\ snap' = [snap EXCEPT ![k] = results]
    /\ tstate' = [tstate EXCEPT ![k] = "locked"]
    /\ UNCHANGED <<nRounds, iterations, adapter, cancelled, cancelAtStart, pc, i, r, it,
                   abandoned, results, dispatched, pauses, ret, quitSeen, iAtQuit>>

\* results.push(result), then the write guard is dropped at the end of the
\* Ok arm; the task still owns its Arc clone
TaskPush(k) ==
    /\ tstate[k] = "locked"
    /\ results' = Append(snap[k], dispatched[k])
    /\ lock' = 0
    /\ snap' = [snap EXCEPT ![k] = <<>>]
    /\ tstate' = [tstate EXCEPT ![k] = "pushed"]
    /\ UNCHANGED <<nRounds, iterations, adapter, cancelled, cancelAtStart, pc, i, r, it,
                   abandoned, dispatched, pauses, ret, quitSeen, iAtQuit>>

\* the async block completes: its captured Arc clone is dropped and the
\* JoinHandle becomes ready
TaskComplete(k) ==
    /\ tstate[k] = "pushed"
    /\ tstate' = [tstate EXCEPT ![k] = "ok"]
    /\ UNCHANGED <<nRounds, iterations, adapter, cancelled, cancelAtStart, pc, i, r, it,
                   abandoned, lock, snap, results, dispatched, pauses, ret,
                   quitSeen, iAtQuit>>

\* DispatchJoined with a failed round turned into an early return of run
DispatchJoinedAbort ==
    /\ pc = "dispatch"
    /\ tstate[i] \in {"ok", "err"}
    /\ pc' = IF tstate[i] = "err" THEN "drain" ELSE "pause"
    /\ pauses' = IF tstate[i] = "err" THEN pauses ELSE pauses + 1
    /\ UNCHANGED <<nRounds, iterations, adapter, cancelled, cancelAtStart, i, r, it,
                   tstate, abandoned, lock, snap, results, dispatched, ret,
                   quitSeen, iAtQuit>>

\* dispatch select!: the JoinHandle branch wins (the task has completed);
\* the scheduler enters the pause select
DispatchJoined ==
    /\ pc = "dispatch"
    /\ tstate[i] \in {"ok", "err"}
    /\ pc' = "pause"
    /\ pauses' = pauses + 1
    /\ UNCHANGED <<nRounds, iterations, adapter, cancelled, cancelAtStart, i, r, it,
                   tstate, abandoned, lock, snap, results, dispatched, ret,
                   quitSeen, iAtQuit>>

\* dispatch select!: quit.recv() wins; the JoinHandle is dropped (the task
\* keeps running detached) and `break` leaves the for loop
DispatchQuit ==
    /\ pc = "dispatch"
    /\ cancelled
    /\ abandoned' = [abandoned EXCEPT ![i] = TRUE]
    /\ pc' = "outer"
    /\ SeeQuit("dispatch")
    /\ UNCHANGED <<nRounds, iterations, adapter, cancelled, cancelAtStart, i, r, it,
                   tstate, lock, snap, results, dispatched, pauses, ret>>

\* pause select!: the interval sleep wins, then the inner ceiling check
PauseSlept ==
    /\ pc = "pause"
    /\ pc' = IF CeilingReached(i) THEN "outer" ELSE "for"
    /\ UNCHANGED <<nRounds, iterations, adapter, cancelled, cancelAtStart, i, r, it,
                   tstate, abandoned, lock, snap, results, dispatched, pauses,
                   ret, quitSeen, iAtQuit>>

\* pause select!: quit.recv() wins; `break` leaves the for loop
PauseQuit ==
    /\ pc = "pause"
    /\ cancelled
    /\ pc' = "outer"
    /\ SeeQuit("pause")
    /\ UNCHANGED <<nRounds, iterations, adapter, cancelled, cancelAtStart, i, r, it,
                   tstate, abandoned, lock, snap, results, dispatched, pauses, ret>>

\* Outer with `let mut r` hoisted out of the loop (r not reset per pass)
OuterNoRReset ==
    /\ pc = "outer"
    /\ IF CeilingReached(i)
          THEN pc' = "drain" /\ it' = it
          ELSE pc' = "for" /\ it' = 0
    /\ UNCHANGED <<nRounds, iterations, adapter, cancelled, cancelAtStart, i, r,
                   tstate, abandoned, lock, snap, results, dispatched, pauses,
                   ret, quitSeen, iAtQuit>>

\* after the for loop: the outer ceiling check; otherwise the next pass with
\* a fresh clone of rounds and r = 0
Outer ==
    /\ pc = "outer"
    /\ IF CeilingReached(i)
          THEN pc' = "drain" /\ r' = r /\ it' = it
          ELSE pc' = "for" /\ r' = 0 /\ it' = 0
    /\ UNCHANGED <<nRounds, iterations, adapter, cancelled, cancelAtStart, i,
                   tstate, abandoned, lock, snap, results, dispatched, pauses,
                   ret, quitSeen, iAtQuit>>

\* Arc::try_unwrap(results).unwrap(): fails (panics) while a round task still
\* holds its Arc clone; otherwise Ok(results)
Return ==
    /\ pc = "drain"
    /\ pc' = "done"
    /\ ret' = IF \E k \in Tasks : HoldsArc(k) THEN "panic" ELSE "ok"
    /\ UNCHANGED <<nRounds, iterations, adapter, cancelled, cancelAtStart, i, r, it,
                   tstate, abandoned, lock, snap, results, dispatched, pauses,
                   quitSeen, iAtQuit>>

Next ==
    \/ RequestCancel
    \/ Spawn
    \/ ForDone
    \/ \E k \in Tasks : TaskFinish(k)
    \/ \E k \in Tasks : TaskLock(k)
    \/ \E k \in Tasks : TaskPush(k)
    \/ \E k \in Tasks : TaskComplete(k)
    \/ DispatchJoined
    \/ DispatchQuit
    \/ PauseSlept
    \/ PauseQuit
    \/ Outer
    \/ Return

Spec == Init /\ [][Next]_vars

\* weak fairness of the scheduler, of every round task and of the selects'
\* ready branches (tokio polls every spawned task and the run future)
SchedulerStep == Spawn \/ ForDone \/ DispatchJoined \/ DispatchQuit \/ PauseSlept
                 \/ PauseQuit \/ Outer \/ Return

SpecLive == Spec /\ WF_vars(SchedulerStep)
                 /\ \A k \in Tasks : WF_vars(TaskFinish(k) \/ TaskLock(k) \/ TaskPush(k) \/ TaskComplete(k))

\* ---- claims ----

\* C1: once the scheduler has observed cancellation (quit.recv() won either
\* select), no further round is dispatched and i never increases again.
C1_NoDispatchAfterQuit ==
    quitSeen # "none" => (i = iAtQuit /\ Len(dispatched) = iAtQuit)

\* C2: if cancellation is requested, run eventually returns (within the
\* model's cap MaxI on the iteration counter).
C2_CancelLeadsToReturn ==
    cancelled ~> (pc = "done" \/ i = MaxI)

\* C3: with a ceiling N, i never exceeds N and the returned results have
\* length at most N.
C3_CeilingBound ==
    Len(iterations) = 1 =>
        (i <= iterations[1] /\ (pc = "done" => Len(results) <= iterations[1]))

\* C4: no result of an abandoned round task (its dispatch race already
\* resolved toward cancellation) is ever appended, and nothing is appended
\* after termination.
C4_NoAbandonedResult ==
    [][ /\ \A k \in Tasks :
             (abandoned[k] /\ tstate[k] = "locked" /\ tstate'[k] = "pushed")
                 => results' = results
        /\ pc = "done" => results' = results ]_vars

\* C5: whenever run terminates it returns Ok with the collected results
\* (Arc::try_unwrap never fails).
C5_DrainSucceeds ==
    pc = "done" => ret = "ok"

\* C6: cancellation requested before run starts: no process_round is
\* spawned and the returned sequence is empty.
C6_CancelBeforeStart ==
    cancelAtStart => (dispatched = <<>> /\ (pc = "done" => results = <<>>))

\* C7: cancellation observed in the pause select: no round is dispatched
\* after the round that completed right before that pause.
C7_NoDispatchAfterPauseQuit ==
    quitSeen = "pause" => Len(dispatched) = iAtQuit

\* C8: with ceiling N, no cancellation and no failing round, run returns
\* exactly N results; rounds go pass by pass with iterations 1..N and round
\* numbers restarting at 1, and results are in that order.
C8_ExactRun ==
    (/\ pc = "done" /\ ~cancelled /\ Len(iterations) = 1
     /\ \A k \in Tasks : tstate[k] # "err")
    => /\ Len(results) = iterations[1]
       /\ dispatched = [j \in 1..iterations[1] |-> <<j, ((j - 1) % nRounds) + 1, ((j - 1) % nRounds) + 1>>]
       /\ results = dispatched

\* C9: a failing process_round appends nothing and never aborts the run: the
\* scheduler leaves that dispatch for the pause exactly as after a success
\* (or breaks out only because cancellation won the race).
C9_FailureNotFatal ==
    [][ /\ \A k \in Tasks :
             (tstate[k] = "running" /\ tstate'[k] = "err") => results' = results
        /\ (pc = "dispatch" /\ tstate[i] = "err" /\ pc' # "dispatch")
             => (pc' = "pause" \/ (pc' = "outer" /\ cancelled)) ]_vars

C9_Witness ==
    pc = "pause" /\ i >= 1 /\ tstate[i] = "err"

\* C10: an unsupported adapter is fatal: load_endpoints returns
\* UnsupportedAdapter, and run aborts at the first dispatch instead of
\* logging the failure and continuing to later rounds and an Ok result.
C10_UnsupportedFatal ==
    /\ LoadEndpoints("Other") = {"UnsupportedAdapter"}
    /\ (adapter # "Hotshot" /\ i >= 1) => (i <= 1 /\ ret # "ok")

\* C11: at most one process_round adapter call is in flight at any time,
\* also after a cancellation race has abandoned an in-flight call.
C11_OneRoundInFlight ==
    Cardinality({k \in Tasks : tstate[k] = "running"}) <= 1

\* C13: with an empty rounds sequence run terminates, with or without a
\* ceiling, instead of cycling over empty passes.
C13_EmptyRoundsTerminate ==
    nRounds = 0 => <>(pc = "done")

\* C14: the iteration numbers passed to process_round are 1, 2, 3, ... in
\* dispatch order, and the in-pass round number r lies in 1..len(rounds) and
\* equals the round's position in the configured sequence.
C14_DispatchNumbering ==
    \A j \in 1..Len(dispatched) :
        /\ dispatched[j][1] = j
        /\ dispatched[j][2] \in 1..nRounds
        /\ dispatched[j][2] = dispatched[j][3]

C14_Witness ==
    /\ Len(dispatched) >= 3
    /\ dispatched[Len(dispatched)][2] = 1

\* C15: every dispatch not broken out by cancellation is followed by the
\* pause before the ceiling check, so an uncancelled run with ceiling N
\* performs exactly N pauses.
C15_PausePerRound ==
    (pc = "done" /\ ~cancelled /\ Len(iterations) = 1) => pauses = iterations[1]

\* C16: appends to results are mutually exclusive: no append is lost, every
\* entry is a whole dispatched round's result, and the length equals the
\* number of pushes performed.
C16_NoLostAppend ==
    /\ Len(results) = Cardinality({k \in Tasks : tstate[k] \in {"pushed", "ok"}})
    /\ \A j \in 1..Len(results) : \E d \in 1..Len(dispatched) : results[j] = dispatched[d]

C16_Witness ==
    /\ Cardinality({k \in Tasks : tstate[k] = "ok"}) >= 2
    /\ \E k \in Tasks : abandoned[k] /\ tstate[k] = "ok"
    /\ \E k \in Tasks : ~abandoned[k] /\ tstate[k] = "ok"

====
